---- MODULE Spec2Model ----
(***************************************************************************)
(* Model of `list.eval` (crates/polars-lazy/src/dsl/list.rs): the strategy *)
(* dispatcher built by ListNameSpaceExtension::eval and its three          *)
(* back-ends run_elementwise_on_values, run_on_group_by_engine and         *)
(* run_per_sublist, with the Groups Builder offsets_to_groups.             *)
(*                                                                         *)
(* One behaviour is the life of one expression node: Init is the state     *)
(* right after eval() has classified the expression and built the closure, *)
(* and every later step is part of one application of the closure to a     *)
(* batch (a list column).                                                  *)
(*                                                                         *)
(* Two further specifications share the module: BuilderSpec applies        *)
(* offsets_to_groups on its own to every offsets buffer of the bounds, and *)
(* SelectSpec is one task of SelectNode::spawn                             *)
(* (crates/polars-stream/src/nodes/select.rs) between its receiver and its *)
(* sender. Each specification leaves the variables of the others alone.    *)
(***************************************************************************)
EXTENDS Integers, Sequences, FiniteSets, TLC

\* ------------------------------------------------------------------ bounds
\* Largest number of rows of a batch.
MaxRows == 2
\* Width in bits of the row-index integer IdxSize, scaled down from 32 so
\* that a batch can hold more elements than IdxSize::MAX.
IdxBits == 2

IdxSizeMax == 2 ^ IdxBits - 1

\* Morsels sent to a SelectNode task, at most.
MaxMorsels == 2
\* Selectors of the SelectNode.
NSelectors == 2

\* ------------------------------------------------------------------ data
\* A null element inside a row; 1 and 2 are ordinary element values.
NullE == -1

\* A list row: valid = FALSE is a null row.
NullRow == [valid |-> FALSE, vals |-> << >>]
Row(s) == [valid |-> TRUE, vals |-> s]

\* The rows batches are built from.
RowVals ==
    { NullRow, Row(<< >>), Row(<<1>>), Row(<<2>>), Row(<<1, NullE, 1>>), Row(<<2, 1>>) }

SeqsUpTo(S, n) == UNION { [1..k -> S] : k \in 0..n }

RECURSIVE Concat(_)
Concat(ss) == IF ss = << >> THEN << >> ELSE Head(ss) \o Concat(Tail(ss))

\* Cuts the rows r into chunks after the positions in B.
RECURSIVE SplitRows(_, _)
SplitRows(r, B) ==
    IF B = {} THEN << r >>
    ELSE LET k == CHOOSE b \in B : \A x \in B : b <= x
         IN  << SubSeq(r, 1, k) >>
               \o SplitRows(SubSeq(r, k + 1, Len(r)), { b - k : b \in B \ {k} })

\* A column is a sequence of chunks, a chunk a sequence of rows. A column
\* with no rows has no chunk or one empty chunk; other chunks are non-empty.
Columns ==
    { << >>, << << >> >> } \cup
    UNION { { SplitRows(r, B) : B \in SUBSET (1..(Len(r) - 1)) } :
            r \in SeqsUpTo(RowVals, MaxRows) \ { << >> } }

\* All rows of a column in row order.
ColRows(c) == Concat(c)

\* Errors. `on` holds the values the failing evaluation was applied to.
NoErr == [kind |-> "none", on |-> << >>]
Err(k, v) == [kind |-> k, on |-> v]
CastNotAllowed == Err("casting to categorical not allowed in list.eval", << >>)
NamedColumnNotAllowed == Err("named columns are not allowed in list.eval", << >>)
PrepareError == Err("prepare_expression_for_context", << >>)
CastError == Err("cast", << >>)

\* Results of a call, PolarsResult<Option<Column>>; rows holds the chunks of
\* the returned column. "panic" is an unwrap of None.
NoResult == [tag |-> "none", rows |-> << >>, dtype |-> "", err |-> NoErr]
OkCol(chunks, dt) == [tag |-> "ok", rows |-> chunks, dtype |-> dt, err |-> NoErr]
ErrRes(e) == [tag |-> "err", rows |-> << >>, dtype |-> "", err |-> e]

\* output_field.dtype(), from eval_field_to_dtype.
OutputDtype == "List(output)"
\* dtype of what the group-by engine hands back.
EngineDtype == "List(aggregated)"

\* ------------------------------------------------------------ expressions
\* An expression is known to the dispatcher by: the kinds of its nodes in
\* the order expr.into_iter() yields them; whether to_aexpr can lower it;
\* what the pushdown analysis says of it when lowered; and (body) what
\* evaluating it computes.
Expression(nodes, body, lowerable, pd, scalar) ==
    [nodes |-> nodes, body |-> body, lowerable |-> lowerable,
     pd |-> pd, scalar |-> scalar]

Expressions ==
    { Expression(<<"Function", "Column()">>, "inc", TRUE, "Pushable", FALSE),
      Expression(<<"Function", "Column()">>, "inc", FALSE, "Pushable", FALSE),
      Expression(<<"Function", "Column()">>, "checked_inc", TRUE, "Fallible", FALSE),
      Expression(<<"Function", "Column()">>, "reverse", TRUE, "Barrier", FALSE),
      Expression(<<"Agg", "Column()">>, "sum", TRUE, "Pushable", TRUE),
      Expression(<<"Agg", "Column()">>, "sum", TRUE, "Barrier", TRUE),
      Expression(<<"AnonymousFunction(map_list)", "Column()">>, "user_map",
                 TRUE, "Barrier", FALSE),
      Expression(<<"Cast(Categorical)", "Column()">>, "inc", TRUE, "Pushable", FALSE),
      Expression(<<"Function", "Column(a)">>, "inc", TRUE, "Pushable", FALSE),
      Expression(<<"Cast(Categorical)", "Column(a)">>, "inc", TRUE, "Pushable", FALSE),
      Expression(<<"BinaryExpr", "Column(a)", "Cast(Categorical)", "Column()">>,
                 "inc", TRUE, "Pushable", FALSE) }

Inc(v) == IF v = NullE THEN NullE ELSE v + 1

RECURSIVE Sum(_)
Sum(vals) ==
    IF vals = << >> THEN 0
    ELSE (IF Head(vals) = NullE THEN 0 ELSE Head(vals)) + Sum(Tail(vals))

Reverse(vals) == [i \in 1..Len(vals) |-> vals[Len(vals) + 1 - i]]

Contains(vals, v) == \E i \in 1..Len(vals) : vals[i] = v

EvalOk(vals) == [ok |-> TRUE, vals |-> vals, err |-> NoErr]
EvalErr(vals) == [ok |-> FALSE, vals |-> << >>, err |-> Err("evaluate", vals)]

\* phys_expr.evaluate(&df, &state) on a frame holding the values vals.
\* checked_inc and user_map fail on the value 2.
Evaluate(body, vals) ==
    CASE body = "inc" -> EvalOk([i \in 1..Len(vals) |-> Inc(vals[i])])
      [] body = "checked_inc" ->
            IF Contains(vals, 2) THEN EvalErr(vals)
            ELSE EvalOk([i \in 1..Len(vals) |-> Inc(vals[i])])
      [] body = "reverse" -> EvalOk(Reverse(vals))
      [] body = "sum" -> EvalOk(<< Sum(vals) >>)
      [] body = "user_map" ->
            IF Contains(vals, 2) THEN EvalErr(vals) ELSE EvalOk(Reverse(vals))

\* ------------------------------------------------------------ column facts
\* lst.len()
ColLen(c) == Len(ColRows(c))
\* lst.is_empty()
IsEmpty(c) == ColLen(c) = 0
\* lst.null_count(), c.null_count(): the number of null rows.
NullCount(c) == Cardinality({ i \in 1..ColLen(c) : ~ColRows(c)[i].valid })
\* lst.has_nulls(): some row holds a null element.
HasNulls(c) ==
    \E i \in 1..ColLen(c) : ColRows(c)[i].valid /\ Contains(ColRows(c)[i].vals, NullE)
\* The values array of a chunk: the elements of its rows, in row order.
ChunkValues(chunk) == Concat([i \in 1..Len(chunk) |-> chunk[i].vals])
\* lst.get_values_size(): the length of the values arrays of all chunks.
GetValuesSize(c) == Len(Concat([k \in 1..Len(c) |-> ChunkValues(c[k])]))
\* arr.offsets(): row i spans values (offsets[i], offsets[i+1]].
RECURSIVE OffsetsFrom(_, _)
OffsetsFrom(rows, start) ==
    IF rows = << >> THEN << start >>
    ELSE << start >> \o OffsetsFrom(Tail(rows), start + Len(Head(rows).vals))
Offsets(rows) == OffsetsFrom(rows, 0)

\* ------------------------------------------------------------------ state
VARIABLES
    expr,            \* the expression captured by the closure
    pd_group,        \* ExprPushdownGroup computed by eval()
    returns_scalar,  \* scalar flag computed by eval()
    parallel,        \* the parallel flag captured by the closure
    pc,              \* where the current call is
    col,             \* the column c (= lst) of the current call
    strategy,        \* the strategy the current call selected
    evalCount,       \* expression evaluations started by the current call
    result,          \* what the current call returned
    unit,            \* status of each unit of work (row or chunk)
    out,             \* collected outputs, one slot per unit
    err,             \* the local error (run_per_sublist: err; elementwise: collect)
    m_err,           \* the shared error slot Mutex<Option<PolarsError>>
    lock,            \* the unit holding the m_err lock, 0 if free
    next,            \* position of the sequential iterator
    ran,             \* the strategies the current call has entered
    order,           \* the units in the order they completed
    seen,            \* the closure has already been applied to a batch
    arr_offsets,     \* offsets_to_groups alone: the offsets it is given
    opt_groups,      \* offsets_to_groups alone: what it returned
    extend_original, \* SelectNode.extend_original
    inbox,           \* SelectNode task: morsels waiting in its receiver
    up_closed,       \* the sender feeding the receiver has been dropped
    down_closed,     \* the receiver behind the task's sender has been dropped
    tpc,             \* where the task is
    cur,             \* the morsel the task took from its receiver
    sel,             \* index of the selector to evaluate next
    ret,             \* the frame built from the selected columns
    received,        \* the morsels the task has received, in order
    sent,            \* the morsels the task has sent, in order
    texit            \* what the task returned

evalVars == << expr, pd_group, returns_scalar, parallel, pc, col, strategy,
               evalCount, result, unit, out, err, m_err, lock, next, ran, order,
               seen >>

builderVars == << arr_offsets, opt_groups >>

selectVars == << extend_original, inbox, up_closed, down_closed, tpc, cur, sel,
                 ret, received, sent, texit >>

vars == << evalVars, builderVars, selectVars >>

closure == << expr, pd_group, returns_scalar, parallel >>

\* offsets_to_groups has not been called.
NotCalled == [some |-> FALSE, groups |-> << << -1, -1 >> >>]

BuilderIdle == arr_offsets = << 0 >> /\ opt_groups = NotCalled

\* A morsel: (df, seq, source_token, consume_token).
Morsel(df, seq, src, consume) == [df |-> df, seq |-> seq, src |-> src, consume |-> consume]
DataFrame(kind, cols) == [kind |-> kind, cols |-> cols]
NoFrame == DataFrame(-1, "")
NoMorsel == Morsel(NoFrame, 0, "", "")

\* No SelectNode task has been spawned.
SelectIdle ==
    /\ extend_original = FALSE
    /\ inbox = << >> /\ up_closed = FALSE /\ down_closed = FALSE
    /\ tpc = "unspawned" /\ cur = NoMorsel /\ sel = 1 /\ ret = NoFrame
    /\ received = << >> /\ sent = << >> /\ texit = "none"

\* ----------------------------------------------------------- eval(): build
\* Faulty variant of Classify: an expression that cannot be lowered is
\* given the pair of a pushable, non-scalar expression.
ClassifyDefaultPushable(e) ==
    IF e.lowerable THEN << e.pd, e.scalar >> ELSE << "Pushable", FALSE >>

\* (pd_group, returns_scalar) as computed when the node is built.
Classify(e) ==
    IF e.lowerable THEN << e.pd, e.scalar >> ELSE << "Barrier", TRUE >>

\* The state of a node just built around the expression e.
Built(e, par) ==
    /\ expr = e
    /\ parallel = par
    /\ pd_group = Classify(e)[1]
    /\ returns_scalar = Classify(e)[2]
    /\ seen = FALSE
    /\ pc = "idle"
    /\ col = << >>
    /\ strategy = "none"
    /\ evalCount = 0
    /\ result = NoResult
    /\ unit = << >>
    /\ out = << >>
    /\ err = NoErr
    /\ m_err = NoErr
    /\ lock = 0
    /\ next = 1
    /\ ran = {}
    /\ order = << >>

Init ==
    /\ \E e \in Expressions, par \in BOOLEAN : Built(e, par)
    /\ BuilderIdle
    /\ SelectIdle

\* ------------------------------------------------------------- dispatcher
\* Faulty variant of CheckNodes: looks for a forbidden cast in the whole expression
\* before it looks for a named column.
CheckNodesCastFirst(nodes) ==
    IF \E i \in 1..Len(nodes) : nodes[i] = "Cast(Categorical)" THEN CastNotAllowed
    ELSE IF \E i \in 1..Len(nodes) : nodes[i] = "Column(a)" THEN NamedColumnNotAllowed
    ELSE NoErr

\* The loop over expr.into_iter(): the first offending node decides.
RECURSIVE CheckNodes(_)
CheckNodes(nodes) ==
    IF nodes = << >> THEN NoErr
    ELSE IF Head(nodes) = "Cast(Categorical)" THEN CastNotAllowed
    ELSE IF Head(nodes) = "Column(a)" THEN NamedColumnNotAllowed
    ELSE CheckNodes(Tail(nodes))

\* Faulty variant of fits_idx_size: the width is not checked.
fits_always(c) == TRUE

\* Faulty variant of fits_idx_size: the comparison is off by one.
fits_off_by_one(c) == GetValuesSize(c) <= IdxSizeMax + 1

fits_idx_size(c) == GetValuesSize(c) <= IdxSizeMax

is_user_apply(e) ==
    \E i \in 1..Len(e.nodes) : e.nodes[i] = "AnonymousFunction(map_list)"

\* Faulty variant of PushdownAllows: a Fallible expression is pushed down whatever
\* the column holds.
PushdownAllowsFallibleAlways(pd, c) == pd \in {"Pushable", "Fallible"}

PushdownAllows(pd, c) ==
    CASE pd = "Pushable" -> TRUE
      [] pd = "Fallible" -> ~HasNulls(c)
      [] pd = "Barrier" -> FALSE

UseElementwise(pd, scalar, c) == PushdownAllows(pd, c) /\ ~scalar

\* Faulty variant of UseGroupBy: null rows are not looked at.
UseGroupByIgnoresNullRows(e, c) == fits_idx_size(c) /\ ~is_user_apply(e)

UseGroupBy(e, c) == fits_idx_size(c) /\ NullCount(c) = 0 /\ ~is_user_apply(e)

SelectStrategy(e, pd, scalar, c) ==
    IF UseElementwise(pd, scalar, c) THEN "Elementwise"
    ELSE IF UseGroupBy(e, c) THEN "GroupAggregation"
    ELSE "PerSublist"

\* c.cast(output_field.dtype())
CastColumn(c, dt, ok) == IF ok THEN OkCol(c, dt) ELSE ErrRes(CastError)

\* Column::new_empty(name, dtype)
NewEmpty(dt) == OkCol(<< << >> >>, dt)

\* Faulty variant of PreChecks: no fast return for an empty column.
PreChecksNoEmptyExit(e, c, castOk) ==
    IF CheckNodes(e.nodes) # NoErr THEN ErrRes(CheckNodes(e.nodes))
    ELSE IF NullCount(c) = ColLen(c) THEN CastColumn(c, OutputDtype, castOk)
    ELSE NoResult

\* Faulty variant of PreChecks: no fast return for an all-null column.
PreChecksNoAllNullExit(e, c, castOk) ==
    IF CheckNodes(e.nodes) # NoErr THEN ErrRes(CheckNodes(e.nodes))
    ELSE IF IsEmpty(c) THEN NewEmpty(OutputDtype)
    ELSE NoResult

\* What func does before it runs a strategy: the result it returns at once,
\* or NoResult when a strategy has to run.
PreChecks(e, c, castOk) ==
    IF CheckNodes(e.nodes) # NoErr THEN ErrRes(CheckNodes(e.nodes))
    ELSE IF IsEmpty(c) THEN NewEmpty(OutputDtype)
    ELSE IF NullCount(c) = ColLen(c) THEN CastColumn(c, OutputDtype, castOk)
    ELSE NoResult

\* func is applied to the batch c.
Call(c, castOk) ==
    /\ pc = "idle"
    /\ col' = c
    /\ evalCount' = 0
    /\ unit' = << >>
    /\ out' = << >>
    /\ err' = NoErr
    /\ m_err' = NoErr
    /\ lock' = 0
    /\ next' = 1
    /\ ran' = {}
    /\ order' = << >>
    /\ result' = PreChecks(expr, c, castOk)
    /\ IF PreChecks(expr, c, castOk) # NoResult
       THEN strategy' = "none" /\ pc' = "returned"
       ELSE /\ strategy' = SelectStrategy(expr, pd_group, returns_scalar, c)
            /\ pc' = "selected"
    /\ UNCHANGED closure
    /\ UNCHANGED << seen, builderVars, selectVars >>

\* The call has returned and its locals are dropped; the node waits for
\* its next batch. Nothing but the closure is carried over.
Return ==
    /\ pc = "returned"
    /\ pc' = "idle"
    /\ col' = << >>
    /\ strategy' = "none"
    /\ evalCount' = 0
    /\ result' = NoResult
    /\ unit' = << >>
    /\ out' = << >>
    /\ err' = NoErr
    /\ m_err' = NoErr
    /\ lock' = 0
    /\ next' = 1
    /\ ran' = {}
    /\ order' = << >>
    /\ UNCHANGED closure
    /\ seen' = TRUE /\ UNCHANGED << builderVars, selectVars >>

\* --------------------------------------------------------------- collecting
EmptySlot == [set |-> FALSE, rows |-> << >>]
EmptySlots(n) == [i \in 1..n |-> EmptySlot]

\* Faulty variant of Place: outputs are appended as the units complete.
PlaceByCompletion(o, i, rows) ==
    LET k == CHOOSE j \in 1..Len(o) : ~o[j].set /\ \A h \in 1..(j - 1) : o[h].set
    IN  [o EXCEPT ![k] = [set |-> TRUE, rows |-> rows]]

\* Unit i hands in its output rows: the collectors are indexed, slot i
\* belongs to unit i whenever it completes.
Place(o, i, rows) == [o EXCEPT ![i] = [set |-> TRUE, rows |-> rows]]

\* Faulty variant of Collected: the outputs in the order the units completed.
CollectedInCompletionOrder(o) ==
    [i \in 1..Len(o) |-> IF i <= Len(order) THEN o[order[i]].rows ELSE o[i].rows]

\* The chunks (or rows) collected, in slot order.
Collected(o) == [i \in 1..Len(o) |-> o[i].rows]

AllFinished == \A i \in 1..Len(unit) : unit[i] \in {"done", "skipped"}

\* ------------------------------------------------- Elementwise Strategy
\* Faulty variant of Rebuild: the validity of the input chunk is not passed on.
RebuildAllValid(chunk, vals) ==
    LET off == Offsets(chunk)
    IN  [i \in 1..Len(chunk) |-> Row(SubSeq(vals, off[i] + 1, off[i + 1]))]

\* ListArray::new(dtype, arr.offsets(), values, arr.validity())
Rebuild(chunk, vals) ==
    LET off == Offsets(chunk)
    IN  [i \in 1..Len(chunk) |->
            IF chunk[i].valid THEN Row(SubSeq(vals, off[i] + 1, off[i + 1]))
            ELSE NullRow]

\* Faulty variant of apply_to_chunk: a failed evaluation gives a chunk of null rows.
apply_to_chunk_err_as_null(body, chunk) ==
    LET r == Evaluate(body, ChunkValues(chunk))
    IN  IF r.ok THEN [ok |-> TRUE, rows |-> Rebuild(chunk, r.vals), err |-> NoErr]
        ELSE [ok |-> TRUE, rows |-> [i \in 1..Len(chunk) |-> NullRow], err |-> NoErr]

\* The closure applied to one chunk: evaluate on its values, rebuild the list.
apply_to_chunk(body, chunk) ==
    LET r == Evaluate(body, ChunkValues(chunk))
    IN  IF r.ok THEN [ok |-> TRUE, rows |-> Rebuild(chunk, r.vals), err |-> NoErr]
        ELSE [ok |-> FALSE, rows |-> << >>, err |-> r.err]

\* prepare_expression_for_context(...)? fails.
EwPrepareFail ==
    /\ pc = "selected" /\ strategy = "Elementwise"
    /\ col # << >>
    /\ result' = ErrRes(PrepareError)
    /\ pc' = "returned"
    /\ UNCHANGED << closure, col, strategy, evalCount, unit, out, err, m_err, lock, next >>
    /\ ran' = ran \cup {"Elementwise"} /\ UNCHANGED order
    /\ UNCHANGED << seen, builderVars, selectVars >>

EwStart ==
    /\ pc = "selected" /\ strategy = "Elementwise"
    /\ IF col = << >>
       THEN /\ result' = NewEmpty(OutputDtype)
            /\ pc' = "returned"
            /\ UNCHANGED << unit, out >>
       ELSE /\ unit' = [k \in 1..Len(col) |-> "pending"]
            /\ out' = EmptySlots(Len(col))
            /\ pc' = IF parallel /\ Len(col) > 1 THEN "ew_par" ELSE "ew_seq"
            /\ UNCHANGED result
    /\ UNCHANGED << closure, col, strategy, evalCount, err, m_err, lock, next >>
    /\ ran' = ran \cup {"Elementwise"} /\ UNCHANGED order
    /\ UNCHANGED << seen, builderVars, selectVars >>

\* The sequential iterator evaluates the next chunk; `?` returns the first error.
EwSeqStep ==
    /\ pc = "ew_seq" /\ next <= Len(col)
    /\ LET r == apply_to_chunk(expr.body, col[next])
       IN  /\ evalCount' = evalCount + 1
           /\ IF r.ok
              THEN /\ out' = Place(out, next, r.rows)
                   /\ unit' = [unit EXCEPT ![next] = "done"]
                   /\ next' = next + 1
                   /\ UNCHANGED << err, result, pc >>
              ELSE /\ err' = r.err
                   /\ result' = ErrRes(r.err)
                   /\ pc' = "returned"
                   /\ UNCHANGED << out, unit, next >>
    /\ UNCHANGED << closure, col, strategy, m_err, lock >>
    /\ order' = Append(order, next) /\ UNCHANGED ran
    /\ UNCHANGED << seen, builderVars, selectVars >>

\* ListChunked::from_chunks(name, chunks).cast_unchecked(dtype)
EwSeqFinish ==
    /\ pc = "ew_seq" /\ next > Len(col)
    /\ result' = OkCol(Collected(out), OutputDtype)
    /\ pc' = "returned"
    /\ UNCHANGED << closure, col, strategy, evalCount, unit, out, err, m_err, lock, next >>
    /\ UNCHANGED << ran, order >>
    /\ UNCHANGED << seen, builderVars, selectVars >>

\* A pool thread evaluates chunk k; the first error found is kept.
EwParChunk(k) ==
    /\ pc = "ew_par" /\ unit[k] = "pending"
    /\ LET r == apply_to_chunk(expr.body, col[k])
       IN  /\ evalCount' = evalCount + 1
           /\ unit' = [unit EXCEPT ![k] = "done"]
           /\ IF r.ok
              THEN out' = Place(out, k, r.rows) /\ UNCHANGED err
              ELSE err' = (IF err = NoErr THEN r.err ELSE err) /\ UNCHANGED out
    /\ UNCHANGED << closure, col, strategy, result, pc, m_err, lock, next >>
    /\ order' = Append(order, k) /\ UNCHANGED ran
    /\ UNCHANGED << seen, builderVars, selectVars >>

\* Once an error is kept the collector may drop chunks not yet started.
EwParSkip(k) ==
    /\ pc = "ew_par" /\ unit[k] = "pending" /\ err # NoErr
    /\ unit' = [unit EXCEPT ![k] = "skipped"]
    /\ UNCHANGED << closure, col, strategy, evalCount, result, pc, out, err, m_err, lock, next >>
    /\ UNCHANGED << ran, order >>
    /\ UNCHANGED << seen, builderVars, selectVars >>

EwParFinish ==
    /\ pc = "ew_par" /\ AllFinished
    /\ result' = IF err # NoErr THEN ErrRes(err) ELSE OkCol(Collected(out), OutputDtype)
    /\ pc' = "returned"
    /\ UNCHANGED << closure, col, strategy, evalCount, unit, out, err, m_err, lock, next >>
    /\ UNCHANGED << ran, order >>
    /\ UNCHANGED << seen, builderVars, selectVars >>

\* ----------------------------------------------------------- Groups Builder
\* `x as IdxSize`
AsIdx(x) == x % (2 ^ IdxBits)

\* The descriptors the iterator over offsets.skip(1) yields, start being
\* the running start.
RECURSIVE GroupsFrom(_, _)
GroupsFrom(ends, start) ==
    IF ends = << >> THEN << >>
    ELSE << << AsIdx(start), AsIdx(Head(ends) - start) >> >>
           \o GroupsFrom(Tail(ends), Head(ends))

\* Faulty variant of offsets_to_groups: the first offset is not skipped.
offsets_to_groups_no_skip(offsets) ==
    [some |-> offsets[Len(offsets)] - offsets[1] <= IdxSizeMax,
     groups |-> GroupsFrom(offsets, offsets[1])]

\* offsets_to_groups: None when end - start does not fit IdxSize.
offsets_to_groups(offsets) ==
    LET start == offsets[1]
        end == offsets[Len(offsets)]
    IN  IF end - start > IdxSizeMax \/ end - start < 0
        THEN [some |-> FALSE, groups |-> << >>]
        ELSE [some |-> TRUE, groups |-> GroupsFrom(Tail(offsets), start)]

\* ------------------------------------------- Group-Aggregation Strategy
\* The state the engine reports for an expression.
AggStateOf(body) == IF body = "sum" THEN "AggregatedScalar" ELSE "AggregatedList"

\* The engine's evaluation of the expression on each group of values.
EvalGroups(body, values, groups) ==
    [i \in 1..Len(groups) |->
        Evaluate(body, SubSeq(values, groups[i][1] + 1, groups[i][1] + groups[i][2]))]

\* ac.aggregated() of a scalar state: one value per group.
AggregatedFlat(rs) == [i \in 1..Len(rs) |-> rs[i].vals[1]]
\* ac.aggregated() of any other state: one list per group.
AggregatedLists(rs) == [i \in 1..Len(rs) |-> Row(rs[i].vals)]
\* out.as_list(): every value becomes a list of one value.
as_list(flat) == [i \in 1..Len(flat) |-> Row(<< flat[i] >>)]

\* The match on ac.agg_state().
AggregatedColumn(body, rs) ==
    IF AggStateOf(body) = "AggregatedScalar" THEN as_list(AggregatedFlat(rs))
    ELSE AggregatedLists(rs)

\* run_on_group_by_engine, from the rechunked column to its return value.
GroupByResult(body, c, prepOk, failing) ==
    LET rows == ColRows(c)
        g == offsets_to_groups(Offsets(rows))
        rs == EvalGroups(body, ChunkValues(rows), g.groups)
    IN  IF ~g.some THEN [tag |-> "panic", rows |-> << >>, dtype |-> "", err |-> NoErr]
        ELSE IF ~prepOk THEN ErrRes(PrepareError)
        ELSE IF \E i \in 1..Len(rs) : ~rs[i].ok
             THEN ErrRes(rs[failing].err)
        ELSE OkCol(<< AggregatedColumn(body, rs) >>, EngineDtype)

\* The groups whose evaluation fails (any of them may be the one reported).
FailingGroups(body, c) ==
    LET rows == ColRows(c)
        g == offsets_to_groups(Offsets(rows))
        rs == EvalGroups(body, ChunkValues(rows), g.groups)
    IN  { i \in 1..Len(rs) : ~rs[i].ok }

run_on_group_by_engine(prepOk) ==
    /\ pc = "selected" /\ strategy = "GroupAggregation"
    /\ \E failing \in (IF FailingGroups(expr.body, col) = {} THEN {1}
                        ELSE FailingGroups(expr.body, col)) :
          result' = GroupByResult(expr.body, col, prepOk, failing)
    /\ evalCount' = IF prepOk /\ offsets_to_groups(Offsets(ColRows(col))).some
                    THEN evalCount + 1 ELSE evalCount
    /\ pc' = "returned"
    /\ UNCHANGED << closure, col, strategy, unit, out, err, m_err, lock, next >>
    /\ ran' = ran \cup {"GroupAggregation"} /\ UNCHANGED order
    /\ UNCHANGED << seen, builderVars, selectVars >>

\* ------------------------------------------------- Per-Sublist Strategy
\* Faulty variant of PsReturn: the collected column is returned whatever err holds.
PsReturnDropsError(e, o, dtypeDiffers, castOk) ==
    IF dtypeDiffers THEN CastColumn(<< Concat(Collected(o)) >>, OutputDtype, castOk)
    ELSE OkCol(<< Concat(Collected(o)) >>, OutputDtype)

\* Lines 109-119: the error check, rename and cast after the rows are collected.
PsReturn(e, o, dtypeDiffers, castOk) ==
    IF e # NoErr THEN ErrRes(e)
    ELSE IF dtypeDiffers THEN CastColumn(<< Concat(Collected(o)) >>, OutputDtype, castOk)
    ELSE OkCol(<< Concat(Collected(o)) >>, OutputDtype)

PsPrepareFail ==
    /\ pc = "selected" /\ strategy = "PerSublist"
    /\ result' = ErrRes(PrepareError)
    /\ pc' = "returned"
    /\ UNCHANGED << closure, col, strategy, evalCount, unit, out, err, m_err, lock, next >>
    /\ ran' = ran \cup {"PerSublist"} /\ UNCHANGED order
    /\ UNCHANGED << seen, builderVars, selectVars >>

PsStart ==
    /\ pc = "selected" /\ strategy = "PerSublist"
    /\ unit' = [i \in 1..ColLen(col) |-> "pending"]
    /\ out' = EmptySlots(ColLen(col))
    /\ err' = NoErr
    /\ m_err' = NoErr
    /\ next' = 1
    /\ pc' = IF parallel THEN "ps_par" ELSE "ps_seq"
    /\ UNCHANGED << closure, col, strategy, evalCount, result, lock >>
    /\ ran' = ran \cup {"PerSublist"} /\ UNCHANGED order
    /\ UNCHANGED << seen, builderVars, selectVars >>

\* Faulty variant of and_then_runs: the closure runs for null rows too.
and_then_runs_always(row) == TRUE

\* opt_s.and_then(..): the closure runs only for Some(s), a non-null row.
and_then_runs(row) == row.valid

\* opt_s is None: the row is null, and_then yields None without evaluating.
PsParNull(i) ==
    /\ pc = "ps_par" /\ unit[i] = "pending" /\ ~and_then_runs(ColRows(col)[i])
    /\ out' = Place(out, i, << NullRow >>)
    /\ unit' = [unit EXCEPT ![i] = "done"]
    /\ UNCHANGED << closure, col, strategy, evalCount, result, pc, err, m_err, lock, next >>
    /\ order' = Append(order, i) /\ UNCHANGED ran
    /\ UNCHANGED << seen, builderVars, selectVars >>

\* A pool thread calls phys_expr.evaluate on row i.
PsParEval(i) ==
    /\ pc = "ps_par" /\ unit[i] = "pending" /\ and_then_runs(ColRows(col)[i])
    /\ unit' = [unit EXCEPT ![i] = "eval"]
    /\ evalCount' = evalCount + 1
    /\ UNCHANGED << closure, col, strategy, result, pc, out, err, m_err, lock, next >>
    /\ UNCHANGED << ran, order >>
    /\ UNCHANGED << seen, builderVars, selectVars >>

\* evaluate returns: Ok gives the row, Err sends the thread to the lock.
PsParEvalDone(i) ==
    /\ pc = "ps_par" /\ unit[i] = "eval"
    /\ LET r == Evaluate(expr.body, ColRows(col)[i].vals)
       IN  IF r.ok
           THEN /\ out' = Place(out, i, << Row(r.vals) >>)
                /\ unit' = [unit EXCEPT ![i] = "done"]
           ELSE /\ unit' = [unit EXCEPT ![i] = "failed"]
                /\ UNCHANGED out
    /\ UNCHANGED << closure, col, strategy, evalCount, result, pc, err, m_err, lock, next >>
    /\ order' = (IF Evaluate(expr.body, ColRows(col)[i].vals).ok
                 THEN Append(order, i) ELSE order)
    /\ UNCHANGED ran
    /\ UNCHANGED << seen, builderVars, selectVars >>

\* m_err.lock()
PsParLock(i) ==
    /\ pc = "ps_par" /\ unit[i] = "failed" /\ lock = 0
    /\ lock' = i
    /\ unit' = [unit EXCEPT ![i] = "locked"]
    /\ UNCHANGED << closure, col, strategy, evalCount, result, pc, out, err, m_err, next >>
    /\ UNCHANGED << ran, order >>
    /\ UNCHANGED << seen, builderVars, selectVars >>

\* Faulty variant of StoreErr: an error already in the slot is kept.
StoreErrIfEmpty(slot, e) == IF slot = NoErr THEN e ELSE slot

\* *m_err.lock().unwrap() = Some(e): the slot's new content.
StoreErr(slot, e) == e

\* Faulty variant of guard_dropped: the guard outlives the statement.
guard_kept(i) == i

\* The holder of the lock once the statement of line 79 ends: the
\* temporary guard is dropped there.
guard_dropped(i) == 0

\* *guard = Some(e); the guard is dropped; the row's output is None.
PsParStore(i) ==
    /\ pc = "ps_par" /\ unit[i] = "locked" /\ lock = i
    /\ m_err' = StoreErr(m_err, Evaluate(expr.body, ColRows(col)[i].vals).err)
    /\ lock' = guard_dropped(i)
    /\ out' = Place(out, i, << NullRow >>)
    /\ unit' = [unit EXCEPT ![i] = "done"]
    /\ UNCHANGED << closure, col, strategy, evalCount, result, pc, err, next >>
    /\ order' = Append(order, i) /\ UNCHANGED ran
    /\ UNCHANGED << seen, builderVars, selectVars >>

\* POOL.install returns; err = m_err.into_inner(); lines 109-119 with the
\* dtype collect_ca_with_dtype gave the column.
PsParFinish ==
    /\ pc = "ps_par" /\ AllFinished
    /\ err' = m_err
    /\ result' = PsReturn(m_err, out, FALSE, TRUE)
    /\ pc' = "returned"
    /\ UNCHANGED << closure, col, strategy, evalCount, unit, out, m_err, lock, next >>
    /\ UNCHANGED << ran, order >>
    /\ UNCHANGED << seen, builderVars, selectVars >>

\* The sequential iterator handles the next row; an error is stored in err
\* and the row's output is None.
PsSeqStep ==
    /\ pc = "ps_seq" /\ next <= ColLen(col)
    /\ LET row == ColRows(col)[next]
           r == Evaluate(expr.body, row.vals)
       IN  IF ~and_then_runs(row)
           THEN /\ out' = Place(out, next, << NullRow >>)
                /\ UNCHANGED << evalCount, err >>
           ELSE /\ evalCount' = evalCount + 1
                /\ IF r.ok
                   THEN out' = Place(out, next, << Row(r.vals) >>) /\ UNCHANGED err
                   ELSE out' = Place(out, next, << NullRow >>) /\ err' = r.err
    /\ unit' = [unit EXCEPT ![next] = "done"]
    /\ next' = next + 1
    /\ UNCHANGED << closure, col, strategy, result, pc, m_err, lock >>
    /\ order' = Append(order, next) /\ UNCHANGED ran
    /\ UNCHANGED << seen, builderVars, selectVars >>

\* collect_trusted is done; lines 109-119 with the dtype it inferred.
PsSeqFinish(dtypeDiffers, castOk) ==
    /\ pc = "ps_seq" /\ next > ColLen(col)
    /\ result' = PsReturn(err, out, dtypeDiffers, castOk)
    /\ pc' = "returned"
    /\ UNCHANGED << closure, col, strategy, evalCount, unit, out, err, m_err, lock, next >>
    /\ UNCHANGED << ran, order >>
    /\ UNCHANGED << seen, builderVars, selectVars >>

\* ------------------------------------------------------------ specification
Rows == 1..MaxRows

Next ==
    \/ pc = "idle" /\ \E c \in Columns, castOk \in BOOLEAN : Call(c, castOk)
    \/ Return
    \/ EwPrepareFail
    \/ EwStart
    \/ EwSeqStep
    \/ EwSeqFinish
    \/ \E k \in Rows : k <= Len(unit) /\ EwParChunk(k)
    \/ \E k \in Rows : k <= Len(unit) /\ EwParSkip(k)
    \/ EwParFinish
    \/ \E prepOk \in BOOLEAN : run_on_group_by_engine(prepOk)
    \/ PsPrepareFail
    \/ PsStart
    \/ \E i \in Rows : i <= Len(unit) /\ PsParNull(i)
    \/ \E i \in Rows : i <= Len(unit) /\ PsParEval(i)
    \/ \E i \in Rows : i <= Len(unit) /\ PsParEvalDone(i)
    \/ \E i \in Rows : i <= Len(unit) /\ PsParLock(i)
    \/ \E i \in Rows : i <= Len(unit) /\ PsParStore(i)
    \/ PsParFinish
    \/ PsSeqStep
    \/ \E dtypeDiffers \in BOOLEAN, castOk \in BOOLEAN : PsSeqFinish(dtypeDiffers, castOk)

Spec == Init /\ [][Next]_vars

\* ------------------------------------------ offsets_to_groups on its own
\* The largest offset tried: offsets reach past IdxSize::MAX.
MaxOffset == 2 ^ IdxBits + 1

\* The offsets of a list array of up to MaxRows rows: non-decreasing.
OffsetSeqs ==
    { o \in SeqsUpTo(0..MaxOffset, MaxRows + 1) :
        Len(o) >= 1 /\ \A i \in 1..(Len(o) - 1) : o[i] <= o[i + 1] }

BuilderInit ==
    /\ arr_offsets \in OffsetSeqs
    /\ opt_groups = NotCalled
    /\ Built(CHOOSE e \in Expressions : TRUE, FALSE)
    /\ SelectIdle

\* offsets_to_groups(arr.offsets()) is called.
CallBuilder ==
    /\ opt_groups = NotCalled
    /\ opt_groups' = offsets_to_groups(arr_offsets)
    /\ UNCHANGED << arr_offsets, selectVars, evalVars >>

\* The function is given the offsets of another array.
NextOffsets(o) ==
    /\ opt_groups # NotCalled
    /\ arr_offsets' = o
    /\ opt_groups' = NotCalled
    /\ UNCHANGED << selectVars, evalVars >>

BuilderNext ==
    \/ CallBuilder
    \/ \E o \in OffsetSeqs : NextOffsets(o)

BuilderSpec == BuilderInit /\ [][BuilderNext]_vars

\* ------------------------------------------------------- SelectNode task
\* One task of SelectNode::spawn with its (receiver, sender) pair.
\* A frame's kind tells what the selectors do on it: 0, all succeed;
\* k in 1..NSelectors, selector k is the first to fail; NSelectors + 1, the
\* selected columns cannot be put together into a frame.
FrameKinds == 0..(NSelectors + 1)
SourceTokens == {"s1", "s2"}
ConsumeTokens == {"none", "c1"}

\* What the task returns.
Running == [tag |-> "none", sel |-> 0, seq |-> 0]
TaskOk == [tag |-> "ok", sel |-> 0, seq |-> 0]
SelectorError(k, seq) == [tag |-> "err", sel |-> k, seq |-> seq]
FrameError(seq) == [tag |-> "err", sel |-> 0, seq |-> seq]

SelectInit ==
    /\ extend_original \in BOOLEAN
    /\ inbox = << >> /\ up_closed = FALSE /\ down_closed = FALSE
    /\ tpc = "recv" /\ cur = NoMorsel /\ sel = 1 /\ ret = NoFrame
    /\ received = << >> /\ sent = << >> /\ texit = Running
    /\ Built(CHOOSE e \in Expressions : TRUE, FALSE)
    /\ BuilderIdle

\* The upstream node sends a morsel; sequence numbers go up.
Produce(kind, src, consume) ==
    /\ ~up_closed
    /\ Len(received) + Len(inbox) < MaxMorsels
    /\ inbox' = Append(inbox, Morsel(DataFrame(kind, "original"),
                                      Len(received) + Len(inbox) + 1, src, consume))
    /\ UNCHANGED << extend_original, up_closed, down_closed, tpc, cur, sel, ret,
                    received, sent, texit >>
    /\ UNCHANGED << evalVars, builderVars >>

\* The upstream node drops its sender.
CloseUpstream ==
    /\ ~up_closed
    /\ up_closed' = TRUE
    /\ UNCHANGED << extend_original, inbox, down_closed, tpc, cur, sel, ret,
                    received, sent, texit >>
    /\ UNCHANGED << evalVars, builderVars >>

\* The downstream node drops its receiver.
CloseDownstream ==
    /\ ~down_closed
    /\ down_closed' = TRUE
    /\ UNCHANGED << extend_original, inbox, up_closed, tpc, cur, sel, ret,
                    received, sent, texit >>
    /\ UNCHANGED << evalVars, builderVars >>

\* recv.recv().await: Ok(morsel) enters the loop body, Err (closed and
\* empty) leaves the loop and the task returns Ok(()).
TaskRecv ==
    /\ tpc = "recv"
    /\ IF inbox # << >>
       THEN /\ cur' = Head(inbox)
            /\ inbox' = Tail(inbox)
            /\ received' = Append(received, Head(inbox))
            /\ sel' = 1
            /\ tpc' = "eval"
            /\ UNCHANGED texit
       ELSE /\ up_closed
            /\ tpc' = "done"
            /\ texit' = TaskOk
            /\ UNCHANGED << cur, inbox, received, sel >>
    /\ UNCHANGED << extend_original, up_closed, down_closed, ret, sent >>
    /\ UNCHANGED << evalVars, builderVars >>

\* selector.evaluate(&df, ..).await? for the next selector.
TaskEvaluate ==
    /\ tpc = "eval"
    /\ IF cur.df.kind = sel
       THEN /\ tpc' = "done"
            /\ texit' = SelectorError(sel, cur.seq)
            /\ UNCHANGED sel
       ELSE /\ IF sel < NSelectors
               THEN sel' = sel + 1 /\ UNCHANGED tpc
               ELSE tpc' = "build" /\ UNCHANGED sel
            /\ UNCHANGED texit
    /\ UNCHANGED << extend_original, inbox, up_closed, down_closed, cur, ret,
                    received, sent >>
    /\ UNCHANGED << evalVars, builderVars >>

\* The frame of the selected columns, or the original frame extended by them.
BuildFrame(df, extend) ==
    DataFrame(df.kind, IF extend THEN "original+selected" ELSE "selected")

\* out._add_columns(selected, &schema)? or DataFrame::new_with_broadcast(selected)?
TaskBuild ==
    /\ tpc = "build"
    /\ IF cur.df.kind = NSelectors + 1
       THEN /\ tpc' = "done"
            /\ texit' = FrameError(cur.seq)
            /\ UNCHANGED ret
       ELSE /\ ret' = BuildFrame(cur.df, extend_original)
            /\ tpc' = "send"
            /\ UNCHANGED texit
    /\ UNCHANGED << extend_original, inbox, up_closed, down_closed, cur, sel,
                    received, sent >>
    /\ UNCHANGED << evalVars, builderVars >>

\* Faulty variant of OutMorsel: the consume token is not passed on.
OutMorselNoConsumeToken(m, frame) == Morsel(frame, m.seq, m.src, "none")

\* Morsel::new(ret, seq, source_token), then set_consume_token if there is one.
OutMorsel(m, frame) == Morsel(frame, m.seq, m.src, m.consume)

\* send.send(morsel).await: an error breaks the loop and the task returns Ok(()).
TaskSend ==
    /\ tpc = "send"
    /\ IF down_closed
       THEN /\ tpc' = "done"
            /\ texit' = TaskOk
            /\ UNCHANGED sent
       ELSE /\ sent' = Append(sent, OutMorsel(cur, ret))
            /\ tpc' = "recv"
            /\ UNCHANGED texit
    /\ cur' = NoMorsel
    /\ ret' = NoFrame
    /\ UNCHANGED << extend_original, inbox, up_closed, down_closed, sel, received >>
    /\ UNCHANGED << evalVars, builderVars >>

SelectNext ==
    \/ \E kind \in FrameKinds, src \in SourceTokens, consume \in ConsumeTokens :
          Produce(kind, src, consume)
    \/ CloseUpstream
    \/ CloseDownstream
    \/ TaskRecv
    \/ TaskEvaluate
    \/ TaskBuild
    \/ TaskSend

SelectSpec == SelectInit /\ [][SelectNext]_vars

\* ------------------------------------------------------------- properties
Returned == pc = "returned"

HasForbiddenCast == \E i \in 1..Len(expr.nodes) : expr.nodes[i] = "Cast(Categorical)"
HasNamedColumn == \E i \in 1..Len(expr.nodes) : expr.nodes[i] = "Column(a)"
ChecksPass == ~HasForbiddenCast /\ ~HasNamedColumn

InRows == ColRows(col)
NullRowCount == Cardinality({ i \in 1..Len(InRows) : ~InRows[i].valid })
HasNullElement ==
    \E i \in 1..Len(InRows) : \E j \in 1..Len(InRows[i].vals) : InRows[i].vals[j] = NullE
RECURSIVE ElementCount(_)
ElementCount(rows) ==
    IF rows = << >> THEN 0 ELSE Len(Head(rows).vals) + ElementCount(Tail(rows))

\* What evaluating the expression on one input row gives as output row.
ExpectedRow(body, row) ==
    IF row.valid THEN Row(Evaluate(body, row.vals).vals) ELSE NullRow

\* The rows whose evaluation fails.
FailingRows ==
    { i \in 1..Len(InRows) : InRows[i].valid /\ ~Evaluate(expr.body, InRows[i].vals).ok }

C2_GroupByIff ==
    /\ strategy \notin {"none", "Elementwise"} =>
          /\ strategy \in {"GroupAggregation", "PerSublist"}
          /\ strategy = "GroupAggregation" <=>
                /\ ElementCount(InRows) <= IdxSizeMax
                /\ NullRowCount = 0
                /\ ~is_user_apply(expr)
    /\ ran \subseteq {strategy}
    /\ (strategy # "none" /\ pc # "selected") => ran = {strategy}

C2_Witness ==
    /\ Returned /\ result.tag = "ok"
    /\ strategy = "PerSublist" /\ ran = {"PerSublist"}
    /\ pd_group = "Barrier"
    /\ ElementCount(InRows) <= IdxSizeMax /\ ~is_user_apply(expr)
    /\ NullRowCount > 0

\* The error of the first offending node, in the iteration order of the nodes.
FirstOffence ==
    LET bad == { i \in 1..Len(expr.nodes) :
                   expr.nodes[i] \in {"Cast(Categorical)", "Column(a)"} }
        first == CHOOSE i \in bad : \A j \in bad : i <= j
    IN  IF expr.nodes[first] = "Cast(Categorical)" THEN CastNotAllowed
        ELSE NamedColumnNotAllowed

\* What the fast exits give for an expression that passes the checks.
FastExitsInOrder ==
    (Returned /\ ChecksPass) =>
        /\ Len(InRows) = 0 => (result.tag = "ok" /\ ColLen(result.rows) = 0)
        /\ (Len(InRows) > 0 /\ NullRowCount = Len(InRows)) =>
              (strategy = "none" /\ result.tag \in {"ok", "err"})
        /\ (Len(InRows) > 0 /\ NullRowCount < Len(InRows)) => strategy # "none"

\* C3 as stated: the checks decide in the order 1, 2, 3, 4; an expression
\* violating 1 or 2 gets a configuration error for every column with no
\* evaluation and no strategy, and the cast error when it violates both.
C3_AsStated ==
    /\ FastExitsInOrder
    /\ (Returned /\ ~ChecksPass) =>
          /\ result.tag = "err"
          /\ result.err \in {CastNotAllowed, NamedColumnNotAllowed}
          /\ evalCount = 0 /\ ran = {} /\ strategy = "none"
          /\ HasForbiddenCast => result.err = CastNotAllowed

\* C3 (amended): checks 1 and 2 are made together, node by node, before
\* checks 3 and 4; an expression violating 1 or 2 gets a configuration
\* error for every column with no evaluation and no strategy, and the error
\* is that of the first offending node in the iteration order of the nodes.
C3_FirstOffendingNode ==
    /\ FastExitsInOrder
    /\ (Returned /\ ~ChecksPass) =>
          /\ result = ErrRes(FirstOffence)
          /\ evalCount = 0 /\ ran = {} /\ strategy = "none"

C3_Witness ==
    /\ Returned
    /\ HasForbiddenCast /\ HasNamedColumn
    /\ result = ErrRes(NamedColumnNotAllowed)
    /\ Len(InRows) > 0 /\ NullRowCount = Len(InRows)

\* C4: an empty column and an expression passing the checks give an empty
\* column of the output dtype; no strategy runs, nothing is evaluated.
C4_EmptyFastExit ==
    (Returned /\ ChecksPass /\ Len(InRows) = 0) =>
        /\ result.tag = "ok"
        /\ ColLen(result.rows) = 0
        /\ result.dtype = OutputDtype
        /\ strategy = "none" /\ ran = {} /\ evalCount = 0

C4_Witness ==
    /\ Returned /\ ChecksPass /\ Len(InRows) = 0
    /\ result = NewEmpty(OutputDtype)

\* C5: a non-empty column of null rows and an expression passing the checks
\* give the cast of the input column to the output dtype (or the error of
\* that cast); no strategy runs, nothing is evaluated.
C5_AllNullFastExit ==
    (Returned /\ ChecksPass /\ Len(InRows) > 0 /\ NullRowCount = Len(InRows)) =>
        /\ result.tag \in {"ok", "err"}
        /\ result.tag = "ok" => (result.rows = col /\ result.dtype = OutputDtype)
        /\ result.tag = "err" => result.err = CastError
        /\ strategy = "none" /\ ran = {} /\ evalCount = 0

C5_Witness ==
    /\ Returned /\ ChecksPass
    /\ Len(InRows) = MaxRows /\ NullRowCount = Len(InRows)
    /\ result.tag = "ok" /\ result.rows = col

\* C6: a column holding more elements than IdxSize::MAX never gets the
\* Group-Aggregation strategy.
C6_NoGroupByOverWidth ==
    ElementCount(InRows) > IdxSizeMax =>
        (strategy # "GroupAggregation" /\ "GroupAggregation" \notin ran)

C6_Witness ==
    /\ Returned /\ result.tag = "ok"
    /\ ElementCount(InRows) > IdxSizeMax
    /\ NullRowCount = 0 /\ ~is_user_apply(expr)
    /\ strategy = "PerSublist"

\* C7: in a successful call of any strategy, output row i is what the
\* expression gives for input row i, whatever the order of completion.
C7_PositionalResults ==
    (Returned /\ result.tag = "ok" /\ strategy # "none") =>
        \A i \in 1..Len(InRows) :
            /\ i <= ColLen(result.rows)
            /\ ColRows(result.rows)[i] = ExpectedRow(expr.body, InRows[i])

C7_Witness ==
    /\ Returned /\ result.tag = "ok"
    /\ strategy = "PerSublist" /\ parallel
    /\ order = << 2, 1 >>
    /\ ExpectedRow(expr.body, InRows[1]) # ExpectedRow(expr.body, InRows[2])

\* C8: a successful call returns as many rows as the input column has, on
\* every path.
C8_RowCountPreserved ==
    (Returned /\ result.tag = "ok") => ColLen(result.rows) = Len(InRows)

C8_Witness ==
    /\ Returned /\ result.tag = "ok"
    /\ strategy = "GroupAggregation"
    /\ AggStateOf(expr.body) = "AggregatedScalar"
    /\ Len(InRows) = MaxRows
    /\ \E i \in 1..Len(InRows) : InRows[i].vals = << >>
    /\ \E i \in 1..Len(InRows) : InRows[i].vals # << >>

\* The strategy and the column a pure elementwise expression gets, as
\* functions of the expression and the input column only.
PureStrategy ==
    IF expr.lowerable THEN "Elementwise"
    ELSE IF ElementCount(InRows) <= IdxSizeMax /\ NullRowCount = 0 THEN "GroupAggregation"
    ELSE "PerSublist"
PureColumn ==
    IF PureStrategy = "Elementwise"
    THEN [k \in 1..Len(col) |->
            [i \in 1..Len(col[k]) |-> ExpectedRow("inc", col[k][i])]]
    ELSE << [i \in 1..Len(InRows) |-> ExpectedRow("inc", InRows[i])] >>
PureDtype == IF PureStrategy = "GroupAggregation" THEN EngineDtype ELSE OutputDtype

\* C9: for a pure elementwise expression the strategy and the column of a
\* successful call do not depend on the parallel flag: both are determined
\* by the expression and the input column.
C9_ParallelFlagIrrelevant ==
    (Returned /\ result.tag = "ok" /\ strategy # "none" /\ expr.body = "inc") =>
        /\ strategy = PureStrategy
        /\ result.rows = PureColumn
        /\ result.dtype = PureDtype

C9_Witness ==
    /\ Returned /\ result.tag = "ok"
    /\ expr.body = "inc" /\ parallel
    /\ strategy = "Elementwise"
    /\ order = << 2, 1 >>
    /\ col[1] # col[2]

\* C10: parallel Per-Sublist, once the rows have been handed to the pool:
\* the call returns an error iff some row failed, the error is that of a
\* failing row, every non-null row has been evaluated by then, and no
\* column is returned when a row failed.
C10_ParallelErrors ==
    (Returned /\ strategy = "PerSublist" /\ parallel /\ unit # << >>) =>
        /\ result.tag \in {"ok", "err"}
        /\ result.tag = "err" <=> FailingRows # {}
        /\ result.tag = "err" =>
              \E i \in FailingRows : result.err = Evaluate(expr.body, InRows[i].vals).err
        /\ evalCount = Len(InRows) - NullRowCount
        /\ \A i \in 1..Len(unit) : unit[i] = "done"

C10_Witness ==
    /\ Returned /\ strategy = "PerSublist" /\ parallel
    /\ Cardinality(FailingRows) = 2
    /\ result.tag = "err"
    /\ result.err = Evaluate(expr.body, InRows[1].vals).err
    /\ result.err # Evaluate(expr.body, InRows[2].vals).err
    /\ order = << 2, 1 >>

\* The error the evaluation of input row i gives.
RowError(i) == Evaluate(expr.body, InRows[i].vals).err

\* The failing rows the sequential iterator has handled so far.
HandledFailing == { i \in FailingRows : i < next }

\* C11: sequential Per-Sublist handles the rows one at a time in row
\* order, and the first error short-circuits: once a row has failed no
\* later row is evaluated, and the call returns the error of the first
\* failing row.
C11_SequentialShortCircuit ==
    (strategy = "PerSublist" /\ ~parallel /\ unit # << >>) =>
        /\ order = [k \in 1..(next - 1) |-> k]
        /\ HandledFailing # {} =>
              LET first == CHOOSE i \in HandledFailing : \A j \in HandledFailing : i <= j
              IN  /\ \A j \in 1..(next - 1) : (j > first) => ~InRows[j].valid
                  /\ Returned => result = ErrRes(RowError(first))

\* The failing rows in the order in which their workers stored their error
\* in the shared slot.
StoreOrder == SelectSeq(order, LAMBDA i : i \in FailingRows)

\* C12 as stated: in a parallel Per-Sublist call the shared slot is written
\* at most once, and the call returns the error of the first failing
\* worker that took the lock.
C12_AsStated ==
    (strategy = "PerSublist" /\ parallel /\ unit # << >>) =>
        /\ Len(StoreOrder) <= 1
        /\ (Returned /\ StoreOrder # << >>) => result = ErrRes(RowError(StoreOrder[1]))

\* C12 (amended): in a parallel Per-Sublist call the shared slot is written
\* once by every failing row, each write made by the holder of the lock and
\* replacing what the slot held, and the call returns the error of the last
\* failing worker that took the lock.
C12_LastWriterWins ==
    (strategy = "PerSublist" /\ parallel /\ unit # << >>) =>
        /\ m_err = IF StoreOrder = << >> THEN NoErr
                   ELSE RowError(StoreOrder[Len(StoreOrder)])
        /\ Len(StoreOrder) <= Cardinality(FailingRows)
        /\ Returned =>
              /\ Len(StoreOrder) = Cardinality(FailingRows)
              /\ StoreOrder # << >> =>
                    result = ErrRes(RowError(StoreOrder[Len(StoreOrder)]))

C12_Witness ==
    /\ Returned /\ strategy = "PerSublist" /\ parallel
    /\ StoreOrder = << 1, 2 >>
    /\ RowError(1) # RowError(2)
    /\ result = ErrRes(RowError(2))

\* C14: whenever the dispatcher selects Group-Aggregation, the Groups
\* Builder succeeds on the offsets of the rechunked column: the unwrap of
\* its result never meets a failure.
C14_BuilderSucceeds ==
    strategy = "GroupAggregation" =>
        /\ GetValuesSize(col) <= IdxSizeMax
        /\ LET offsets == Offsets(InRows)
           IN  /\ offsets[Len(offsets)] - offsets[1] <= IdxSizeMax
               /\ offsets_to_groups(offsets).some
        /\ result.tag # "panic"

C14_Witness ==
    /\ Returned /\ strategy = "GroupAggregation" /\ result.tag = "ok"
    /\ GetValuesSize(col) = IdxSizeMax
    /\ Len(offsets_to_groups(Offsets(InRows)).groups) = Len(InRows)

\* C15: a successful Elementwise call returns the chunks in the order of
\* the input chunks, each with the row count, the offsets and the null mask
\* of its input chunk; only the values differ.
C15_ElementwiseFrame ==
    (Returned /\ result.tag = "ok" /\ strategy = "Elementwise") =>
        /\ Len(result.rows) = Len(col)
        /\ \A k \in 1..Len(col) :
              /\ Len(result.rows[k]) = Len(col[k])
              /\ Offsets(result.rows[k]) = Offsets(col[k])
              /\ \A i \in 1..Len(col[k]) : result.rows[k][i].valid = col[k][i].valid
              /\ result.rows[k] = [i \in 1..Len(col[k]) |-> ExpectedRow(expr.body, col[k][i])]

C15_Witness ==
    /\ Returned /\ result.tag = "ok" /\ strategy = "Elementwise"
    /\ Len(col) = 2 /\ parallel /\ order = << 2, 1 >>
    /\ ~col[1][1].valid
    /\ col[2][1].valid /\ col[2][1].vals # << >>
    /\ result.rows # col

\* The chunks whose evaluation fails.
FailingChunks ==
    { k \in 1..Len(col) : ~Evaluate(expr.body, ChunkValues(col[k])).ok }

ChunkError(k) == Evaluate(expr.body, ChunkValues(col[k])).err

\* C16: Elementwise, once the chunks are being evaluated: when the
\* evaluation of a chunk fails the call returns the error of a failing
\* chunk and no column; processed sequentially (parallel not set, or one
\* chunk), no chunk after the first failing one is evaluated and its error
\* is the one returned.
C16_ElementwiseErrors ==
    (strategy = "Elementwise" /\ unit # << >>) =>
        /\ (Returned /\ FailingChunks # {}) =>
              \E k \in FailingChunks : result = ErrRes(ChunkError(k))
        /\ (Returned /\ FailingChunks = {}) => result.tag = "ok"
        /\ (~(parallel /\ Len(col) > 1) /\ FailingChunks # {}) =>
              LET first == CHOOSE k \in FailingChunks : \A j \in FailingChunks : k <= j
              IN  /\ evalCount <= first
                  /\ order = [k \in 1..evalCount |-> k]
                  /\ \A k \in 1..Len(col) : (k > first) => unit[k] = "pending"
                  /\ Returned => result = ErrRes(ChunkError(first))

C16_Witness ==
    /\ Returned /\ strategy = "Elementwise" /\ ~parallel
    /\ Len(col) = 2 /\ FailingChunks = {1}
    /\ evalCount = 1 /\ unit[2] = "pending"
    /\ result = ErrRes(ChunkError(1))

\* C17: Per-Sublist, sequential or parallel: a null row is never evaluated
\* and gives a null output row; the expression is evaluated once for every
\* non-null row that has been taken up, so exactly once per non-null row
\* in a call in which no row fails.
C17_NullRowsNotEvaluated ==
    (strategy = "PerSublist" /\ unit # << >>) =>
        /\ \A i \in 1..Len(InRows) : ~InRows[i].valid =>
              /\ unit[i] \in {"pending", "done"}
              /\ out[i].set => out[i].rows = << NullRow >>
        /\ evalCount =
              Cardinality({ i \in 1..Len(InRows) : InRows[i].valid /\ unit[i] # "pending" })
        /\ (Returned /\ FailingRows = {}) =>
              /\ evalCount = Len(InRows) - NullRowCount
              /\ result.tag = "ok" =>
                    \A i \in 1..Len(InRows) :
                        ~InRows[i].valid => ColRows(result.rows)[i] = NullRow

C17_Witness ==
    /\ Returned /\ strategy = "PerSublist" /\ result.tag = "ok"
    /\ FailingRows = {}
    /\ Len(InRows) = 2 /\ ~InRows[1].valid /\ InRows[2].valid
    /\ evalCount = 1
    /\ ColRows(result.rows)[1] = NullRow /\ ColRows(result.rows)[2] # NullRow

\* C18: the lock of the shared error slot is held only by a worker whose
\* row's evaluation has already returned an error, never by a worker that
\* is evaluating; it is free again when that row is done, and whenever the
\* parallel Per-Sublist path is not finished some worker can take a step.
C18_LockNotHeldWhileEvaluating ==
    /\ lock # 0 =>
          /\ pc = "ps_par" /\ lock \in 1..Len(unit)
          /\ unit[lock] = "locked"
          /\ lock \in FailingRows
    /\ \A i \in 1..Len(unit) :
          /\ unit[i] = "locked" => lock = i
          /\ unit[i] \in {"eval", "pending", "done"} => lock # i
    /\ pc = "ps_par" =>
          \/ AllFinished
          \/ \E i \in 1..Len(unit) :
                \/ unit[i] \in {"pending", "eval"}
                \/ unit[i] = "locked" /\ lock = i
                \/ unit[i] = "failed" /\ lock = 0

C18_Witness ==
    /\ pc = "ps_par" /\ Len(unit) = 2
    /\ lock = 1 /\ unit[1] = "locked"
    /\ unit[2] = "eval"
    /\ 2 \in FailingRows

\* The pair the analysis of the expression gives, and the pair of an
\* expression that cannot be lowered.
ExpectedPair ==
    IF expr.lowerable THEN << expr.pd, expr.scalar >> ELSE << "Barrier", TRUE >>

\* Between two calls the node holds nothing but what it was built with.
NothingCarriedOver ==
    pc = "idle" =>
        /\ col = << >> /\ strategy = "none" /\ evalCount = 0 /\ result = NoResult
        /\ unit = << >> /\ out = << >> /\ err = NoErr /\ m_err = NoErr
        /\ lock = 0 /\ next = 1 /\ ran = {} /\ order = << >>

\* C19: the pair (pushdown classification, scalar flag) is the one computed
\* when the node was built and no step of any call changes it or anything
\* else the closure captured; nothing else is carried from one call to the
\* next; every batch is dispatched on that pair; and an expression that
\* cannot be lowered has the pair (Barrier, scalar-returning), so that
\* Elementwise is never selected for any of its batches.
C19_PairFixedAtBuild ==
    /\ [](/\ << pd_group, returns_scalar >> = ExpectedPair
          /\ NothingCarriedOver
          /\ strategy = "Elementwise" => (pd_group # "Barrier" /\ ~returns_scalar)
          /\ ~expr.lowerable =>
                (strategy # "Elementwise" /\ "Elementwise" \notin ran))
    /\ [][closure' = closure]_vars

C19_Witness ==
    /\ seen /\ Returned /\ result.tag = "ok"
    /\ ~expr.lowerable /\ expr.pd = "Pushable" /\ ~expr.scalar
    /\ pd_group = "Barrier" /\ returns_scalar
    /\ strategy = "GroupAggregation"

\* C13: for non-decreasing offsets of n + 1 entries, offsets_to_groups
\* fails iff offsets[n] - offsets[0] does not fit IdxSize; otherwise it
\* gives n descriptors in row order, descriptor i being exactly
\* (offsets[i], offsets[i+1] - offsets[i]), so that the ranges are disjoint
\* and cover [offsets[0], offsets[n]).
C13_ExactDescriptors ==
    opt_groups # NotCalled =>
        LET n == Len(arr_offsets) - 1
            span == arr_offsets[n + 1] - arr_offsets[1]
        IN  /\ opt_groups.some <=> span <= IdxSizeMax
            /\ opt_groups.some =>
                  /\ Len(opt_groups.groups) = n
                  /\ \A i \in 1..n :
                        opt_groups.groups[i] =
                            << arr_offsets[i], arr_offsets[i + 1] - arr_offsets[i] >>

\* The morsel a task owes for the input morsel m.
ExpectedOut(m) ==
    Morsel(DataFrame(m.df.kind, IF extend_original THEN "original+selected" ELSE "selected"),
           m.seq, m.src, m.consume)

\* C20: a SelectNode task sends morsels in the order it received them, at
\* most one per received morsel, each with the sequence number, source
\* token and consume token of the morsel it was computed from; when a
\* selector fails on a morsel nothing is sent for it, nothing later is
\* received and the task ends with that error; the task ends with Ok only
\* when its receiver is closed and drained or when a send has failed, and
\* after a failed send it receives no further morsel.
C20_SelectTask ==
    /\ Len(sent) <= Len(received)
    /\ Len(received) <= Len(sent) + 1
    /\ \A i \in 1..Len(sent) : sent[i] = ExpectedOut(received[i])
    /\ \A i \in 1..Len(received) :
          received[i].df.kind \in 1..NSelectors =>
              /\ i = Len(received)
              /\ Len(sent) = i - 1
              /\ tpc \in {"eval", "done"}
              /\ tpc = "done" =>
                    texit = SelectorError(received[i].df.kind, received[i].seq)
    /\ tpc = "done" <=> texit # Running
    /\ texit = TaskOk =>
          \/ up_closed /\ inbox = << >> /\ Len(sent) = Len(received)
          \/ down_closed /\ Len(sent) = Len(received) - 1
                /\ received[Len(received)].df.kind = 0

C20_Witness ==
    /\ tpc = "done"
    /\ Len(received) = 2 /\ Len(sent) = 1
    /\ sent[1].seq = 1 /\ sent[1].consume = "c1" /\ sent[1].src = "s2"
    /\ received[2].src = "s1"
    /\ texit = SelectorError(2, 2)
    /\ ~down_closed

====
